---- MODULE Spec2Model ----
(***************************************************************************)
(* Model of ros2_aruco: the ArucoNode (constructor, info_callback,         *)
(* image_callback) and the two generator scripts.  Calls into OpenCV, tf2  *)
(* and rclpy are recorded, in program order, in the sequence `events`;     *)
(* what the libraries return (detections, poses, imwrite results) is input *)
(* chosen by the environment.                                              *)
(***************************************************************************)
EXTENDS Integers, Sequences, FiniteSets, TLC

VARIABLES
    prog,                 \* which entry point runs: "node", "gen", "board"
    pc,                   \* "start", "spinning", "crashed", "done"
    op,                   \* the operation that ran last
    params,               \* ROS parameter overrides given to the node
    args,                 \* command line arguments of a generator script
    camera_frame,         \* self.camera_frame
    aruco_dictionary,     \* self.aruco_dictionary
    marker_size,          \* self.marker_size
    publish_tf,           \* self.publish_tf
    publish_charuco_pose, \* self.publish_charuco_pose
    charuco_square_x,     \* self.charuco_square_x
    charuco_square_y,     \* self.charuco_square_y
    charuco_square_length,\* self.charuco_square_length
    info_sub,             \* TRUE while the camera-info subscription exists
    info_msg,             \* self.info_msg
    intrinsic_mat,        \* self.intrinsic_mat
    distortion,           \* self.distortion
    ninfo,                \* number of info_callback runs so far
    nimages,              \* number of image_callback runs so far
    last,                 \* input of the last image_callback
    events,               \* library calls / publications of the last operation
    raised                \* exception that escaped the last operation

vars == <<prog, pc, op, params, args, camera_frame, aruco_dictionary, marker_size,
          publish_tf, publish_charuco_pose, charuco_square_x, charuco_square_y,
          charuco_square_length, info_sub, info_msg, intrinsic_mat, distortion,
          ninfo, nimages, last, events, raised>>

nodeConfig == <<camera_frame, aruco_dictionary, marker_size, publish_tf,
                publish_charuco_pose, charuco_square_x, charuco_square_y,
                charuco_square_length>>

calibration == <<info_msg, intrinsic_mat, distortion>>

----------------------------------------------------------------------------
\* Bounds of the model
MaxMarkers == 2
MaxImages == 2
MaxInfos == 2
MaxNum == 2

----------------------------------------------------------------------------
\* Python values

None == [type |-> "NoneType"]

PyStr(s) == [type |-> "str", value |-> s]

IsNone(v) == v.type = "NoneType"

\* truth value of `v` as used by the `or` operator
Truthy(v) ==
    /\ v.type # "NoneType"
    /\ ~(v.type = "str" /\ v.value = "")
    /\ ~(v.type = "int" /\ v.value = 0)

PyInt(n) == [type |-> "int", value |-> n]

NoException == "none"

----------------------------------------------------------------------------
\* ROS parameters

NotSet == [type |-> "NOT_SET"]

StringParam(s) == [type |-> "STRING", string_value |-> s]

\* get_parameter_value().string_value: the string field of a ParameterValue
\* message, which is the empty string unless the value is a string
string_value(p) == IF p.type = "STRING" THEN p.string_value ELSE ""

CameraFrames == {NotSet, StringParam("camera_link")}

DictionaryNames == {"DICT_5X5_250", "DICT_NOPE", "drawMarker", "CUSTOM"}

CustomSizes == {4, 6}
CustomBits == {6}
CustomSeeds == {3}
MarkerSizes == {62}
SquaresX == {5, 7}
SquaresY == {5}
SquareLengths == {100}

DefaultCustom == [dictionary_size |-> -1, dictionary_bits |-> -1,
                  dictionary_seed |-> 0]

DictionaryParams ==
    {[aruco_dictionary_id |-> n, custom |-> DefaultCustom] :
        n \in DictionaryNames \ {"CUSTOM"}}
    \cup
    {[aruco_dictionary_id |-> "CUSTOM",
      custom |-> [dictionary_size |-> s, dictionary_bits |-> b,
                  dictionary_seed |-> r]] :
        s \in CustomSizes, b \in CustomBits, r \in CustomSeeds}

NodeParams ==
    {[camera_frame |-> cf,
      aruco_dictionary_id |-> d.aruco_dictionary_id,
      dictionary_size |-> d.custom.dictionary_size,
      dictionary_bits |-> d.custom.dictionary_bits,
      dictionary_seed |-> d.custom.dictionary_seed,
      marker_size |-> ms,
      publish_tf |-> tf,
      publish_charuco_pose |-> ch,
      charuco_square_x |-> sx,
      charuco_square_y |-> sy,
      charuco_square_length |-> sl] :
        cf \in CameraFrames, d \in DictionaryParams, ms \in MarkerSizes,
        tf \in BOOLEAN, ch \in BOOLEAN, sx \in SquaresX,
        sy \in SquaresY, sl \in SquareLengths}

DefaultParams ==
    [camera_frame |-> NotSet, aruco_dictionary_id |-> "DICT_5X5_250",
     dictionary_size |-> -1, dictionary_bits |-> -1, dictionary_seed |-> 0,
     marker_size |-> 62, publish_tf |-> FALSE, publish_charuco_pose |-> FALSE,
     charuco_square_x |-> 7, charuco_square_y |-> 5,
     charuco_square_length |-> 100]

----------------------------------------------------------------------------
\* The vision library (cv2.aruco), as far as the program uses it

\* names that cv2.aruco has as attributes
ArucoAttributes == {"DICT_5X5_250", "drawMarker"}

\* type of the attribute
ArucoAttributeType(name) == IF name = "drawMarker" THEN "function" ELSE "int"

\* cv2.aruco.Dictionary_get(id)
Dictionary_get(name) == [kind |-> "predefined", name |-> name]

\* cv2.aruco.Dictionary_create(nMarkers, markerSize, randomSeed)
Dictionary_create(nMarkers, markerSize, randomSeed) ==
    [kind |-> "custom", nMarkers |-> nMarkers, markerSize |-> markerSize,
     randomSeed |-> randomSeed]

NoDictionary == [kind |-> "none"]

----------------------------------------------------------------------------
\* Events recorded in `events`

LogError(text, arg) == [op |-> "log_error", text |-> text, arg |-> arg]

LogWarn(text) == [op |-> "log_warn", text |-> text]

Call(name, a) == [op |-> "call", name |-> name, args |-> a]

Publish(topic, msg) == [op |-> "publish", topic |-> topic, msg |-> msg]

SendTransform(t) == [op |-> "sendTransform", t |-> t]

ConsolePrint(text) == [op |-> "print", text |-> text]

----------------------------------------------------------------------------
\* ArucoNode.__init__

\* lines 80-103: the dictionary the constructor ends up with, the events it
\* produces on the way and the exception that escapes, if any
MakeDictionary(p) ==
    LET name == p.aruco_dictionary_id
        bad == <<LogError("bad aruco_dictionary_id", name),
                 LogError("valid options", ArucoAttributes \ {"drawMarker"})>>
    IN  IF name # "CUSTOM"
        THEN IF name \notin ArucoAttributes
             THEN \* __getattribute__ raises, dictionary_id is never bound
                  [events |-> bad, dictionary |-> NoDictionary,
                   raised |-> "UnboundLocalError"]
             ELSE IF ArucoAttributeType(name) # ArucoAttributeType("DICT_5X5_250")
             THEN \* raise AttributeError, dictionary_id is bound to the attribute
                  [events |-> bad \o <<Call("Dictionary_get", <<name>>)>>,
                   dictionary |-> NoDictionary, raised |-> "TypeError"]
             ELSE [events |-> <<Call("Dictionary_get", <<name>>)>>,
                   dictionary |-> Dictionary_get(name),
                   raised |-> NoException]
        ELSE [events |-> <<Call("Dictionary_create",
                                <<p.dictionary_bits, p.dictionary_size,
                                  p.dictionary_seed>>)>>,
              dictionary |-> Dictionary_create(p.dictionary_bits,
                                               p.dictionary_size,
                                               p.dictionary_seed),
              raised |-> NoException]

\* lines 154-160: the value read into self.charuco_square_y
ReadSquareY(p) == p.charuco_square_x

ArucoNode_init ==
    /\ prog = "node"
    /\ pc = "start"
    /\ LET d == MakeDictionary(params)
       IN  /\ marker_size' = params.marker_size
           /\ camera_frame' = PyStr(string_value(params.camera_frame))
           /\ events' = d.events
           /\ raised' = d.raised
           /\ aruco_dictionary' = d.dictionary
           /\ IF d.raised # NoException
              THEN /\ pc' = "crashed"
                   /\ UNCHANGED <<publish_tf, publish_charuco_pose,
                                  charuco_square_x, charuco_square_y,
                                  charuco_square_length, info_sub>>
              ELSE /\ pc' = "spinning"
                   /\ info_sub' = TRUE
                   /\ publish_tf' = params.publish_tf
                   /\ publish_charuco_pose' = params.publish_charuco_pose
                   /\ charuco_square_x' = params.charuco_square_x
                   /\ charuco_square_y' = ReadSquareY(params)
                   /\ charuco_square_length' = params.charuco_square_length
    /\ info_msg' = None
    /\ intrinsic_mat' = None
    /\ distortion' = None
    /\ op' = "init"
    /\ UNCHANGED <<prog, params, args, ninfo, nimages, last>>

----------------------------------------------------------------------------
\* ArucoNode.info_callback

CameraInfo(frame_id, k, d) ==
    [type |-> "CameraInfo", header |-> [frame_id |-> frame_id],
     k |-> k, d |-> d]

InfoMsgs ==
    {CameraInfo("camera_optical_frame",
                <<500, 0, 320, 0, 500, 240, 0, 0, 1>>, <<0, 0, 0, 0, 0>>),
     CameraInfo("depth_frame",
                <<600, 0, 300, 0, 610, 200, 0, 0, 1>>, <<1, 2, 0, 0, 3>>)}

\* np.reshape(np.array(k), (3, 3)): row-major
Reshape3x3(k) ==
    [type |-> "ndarray",
     rows |-> [r \in 1..3 |-> [c \in 1..3 |-> k[3 * (r - 1) + c]]]]

NdArray(d) == [type |-> "ndarray", data |-> d]

\* the subscription kept alive
info_callback_KeepSub(msg) ==
    /\ prog = "node"
    /\ pc = "spinning"
    /\ info_sub
    /\ ninfo < MaxInfos
    /\ info_msg' = msg
    /\ intrinsic_mat' = Reshape3x3(msg.k)
    /\ distortion' = NdArray(msg.d)
    /\ info_sub' = info_sub
    /\ ninfo' = ninfo + 1
    /\ events' = <<>>
    /\ raised' = NoException
    /\ op' = "info"
    /\ UNCHANGED <<prog, pc, params, args, nodeConfig, nimages, last>>

info_callback(msg) ==
    /\ prog = "node"
    /\ pc = "spinning"
    /\ info_sub
    /\ ninfo < MaxInfos
    /\ info_msg' = msg
    /\ intrinsic_mat' = Reshape3x3(msg.k)
    /\ distortion' = NdArray(msg.d)
    /\ info_sub' = FALSE
    /\ ninfo' = ninfo + 1
    /\ events' = <<>>
    /\ raised' = NoException
    /\ op' = "info"
    /\ UNCHANGED <<prog, pc, params, args, nodeConfig, nimages, last>>

----------------------------------------------------------------------------
\* ArucoNode.image_callback

\* what the library may report for one marker: the id, the translation
\* vector and the rotation vector of estimatePoseSingleMarkers
Observations ==
    {[id |-> 7, tvec |-> <<1, 2, 3>>, rvec |-> <<0, 0, 1>>],
     [id |-> 9, tvec |-> <<4, 5, 6>>, rvec |-> <<0, 1, 0>>]}

\* results of the library calls made for one image; marker_ids is None when
\* nothing was detected, as detectMarkers reports it
Detections ==
    {[marker_ids |-> None, tvecs |-> <<>>, rvecs |-> <<>>]}
    \cup
    UNION {{[marker_ids |-> [type |-> "ndarray",
                             data |-> [i \in 1..n |-> <<o[i].id>>]],
             tvecs |-> [i \in 1..n |-> <<o[i].tvec>>],
             rvecs |-> [i \in 1..n |-> <<o[i].rvec>>]] :
               o \in [1..n -> Observations]} : n \in 1..MaxMarkers}

\* results of interpolateCornersCharuco and estimatePoseCharucoBoard
BoardResults ==
    {[n_corners |-> 0, success |-> FALSE,
      tvec |-> <<<<0>>, <<0>>, <<0>>>>, rvec |-> <<0, 0, 0>>],
     [n_corners |-> 4, success |-> FALSE,
      tvec |-> <<<<0>>, <<0>>, <<0>>>>, rvec |-> <<0, 0, 0>>],
     [n_corners |-> 4, success |-> TRUE,
      tvec |-> <<<<7>>, <<8>>, <<9>>>>, rvec |-> <<0, 1, 1>>]}

\* sensor_msgs Image: only the stamp matters here
ImageMsg(stamp) == [header |-> [stamp |-> stamp]]

\* lines 226-228: cv2.Rodrigues followed by quaternion_from_matrix; the
\* numerics live in the libraries, the result is a function of the vector
Quaternion(rvec) == [x |-> <<"qx", rvec>>, y |-> <<"qy", rvec>>,
                     z |-> <<"qz", rvec>>, w |-> <<"qw", rvec>>]

\* the pose always taken from the first detection
MarkerPose_First(tvecs, rvecs, i) ==
    [position |-> [x |-> tvecs[1][1][1], y |-> tvecs[1][1][2],
                   z |-> tvecs[1][1][3]],
     orientation |-> Quaternion(rvecs[1][1])]

\* lines 221-233: the pose of the i-th detected marker (1-based here)
MarkerPose(tvecs, rvecs, i) ==
    [position |-> [x |-> tvecs[i][1][1], y |-> tvecs[i][1][2],
                   z |-> tvecs[i][1][3]],
     orientation |-> Quaternion(rvecs[i][1])]

\* line 237: the id appended for the i-th detected marker
MarkerId(marker_ids, i) == marker_ids.data[i][1]

\* lines 187-192: frame_id of the two outgoing headers
HeaderFrame(cf, info) ==
    IF IsNone(cf) THEN info.header.frame_id ELSE cf.value

\* lines 243-244 and 305-306: self.camera_frame or self.info.msg.header...
\* ArucoNode has no attribute `info`, so the right operand raises
TransformFrame(cf) ==
    IF Truthy(cf)
    THEN [raised |-> NoException, frame_id |-> cf.value]
    ELSE [raised |-> "AttributeError", frame_id |-> ""]

\* f"marker_{marker_id[0]}"
MarkerFrame(id) == <<"marker_", id>>

\* lines 240-254
MarkerTransform(stamp, frame_id, id, pose) ==
    [header |-> [stamp |-> stamp, frame_id |-> frame_id],
     child_frame_id |-> MarkerFrame(id),
     translation |-> pose.position,
     rotation |-> pose.orientation]

\* lines 220-254: the loop over the detected markers from index i on;
\* st carries the messages under construction, the events so far and the
\* exception that ended the loop
RECURSIVE MarkerLoop(_, _, _, _, _)
MarkerLoop(i, det, stamp, cfg, st) ==
    IF i > Len(det.marker_ids.data) \/ st.raised # NoException
    THEN st
    ELSE LET pose == MarkerPose(det.tvecs, det.rvecs, i)
             id == MarkerId(det.marker_ids, i)
             st1 == [st EXCEPT !.pose_array = Append(@, pose),
                               !.markers_poses = Append(@, pose),
                               !.marker_ids = Append(@, id)]
             f == TransformFrame(cfg.camera_frame)
             st2 == IF ~cfg.publish_tf
                    THEN st1
                    ELSE IF f.raised # NoException
                    THEN [st1 EXCEPT !.raised = f.raised]
                    ELSE [st1 EXCEPT !.events = Append(@,
                            SendTransform(MarkerTransform(stamp, f.frame_id,
                                                          id, pose)))]
         IN  MarkerLoop(i + 1, det, stamp, cfg, st2)

\* lines 259-316: the ChArUco part, run after the two marker messages
CharucoPart(stamp, cfg, b) ==
    LET board == Call("CharucoBoard_create",
                      <<cfg.charuco_square_x, cfg.charuco_square_y,
                        cfg.charuco_square_length, cfg.marker_size,
                        cfg.aruco_dictionary>>)
        interp == Call("interpolateCornersCharuco", <<>>)
        est == Call("estimatePoseCharucoBoard",
                    <<cfg.intrinsic_mat, cfg.distortion>>)
        pose == [position |-> [x |-> b.tvec[1][1], y |-> b.tvec[2][1],
                               z |-> b.tvec[3][1]],
                 orientation |-> Quaternion(b.rvec)]
        f == TransformFrame(cfg.camera_frame)
        t == [header |-> [stamp |-> stamp, frame_id |-> f.frame_id],
              child_frame_id |-> "charuco_board",
              translation |-> pose.position,
              rotation |-> pose.orientation]
    IN  IF ~cfg.publish_charuco_pose
        THEN [events |-> <<>>, raised |-> NoException]
        ELSE IF ~(b.n_corners > 0)
        THEN [events |-> <<board, interp>>, raised |-> NoException]
        ELSE IF ~b.success
        THEN [events |-> <<board, interp, est>>, raised |-> NoException]
        ELSE IF ~cfg.publish_tf
        THEN [events |-> <<board, interp, est,
                           Publish("charuco_pose", [pose |-> pose])>>,
              raised |-> NoException]
        ELSE IF f.raised # NoException
        THEN [events |-> <<board, interp, est,
                           Publish("charuco_pose", [pose |-> pose])>>,
              raised |-> f.raised]
        ELSE [events |-> <<board, interp, est,
                           Publish("charuco_pose", [pose |-> pose]),
                           SendTransform(t)>>,
              raised |-> NoException]

\* lines 183-316: the callback once camera info is there
ProcessImage(img_msg, det, b, cfg) ==
    LET frame == HeaderFrame(cfg.camera_frame, cfg.info_msg)
        header == [frame_id |-> frame, stamp |-> img_msg.header.stamp]
        detect == Call("detectMarkers", <<cfg.aruco_dictionary>>)
        estimate == Call("estimatePoseSingleMarkers",
                         <<cfg.marker_size, cfg.intrinsic_mat,
                           cfg.distortion>>)
        st0 == [pose_array |-> <<>>, markers_poses |-> <<>>,
                marker_ids |-> <<>>, events |-> <<detect, estimate>>,
                raised |-> NoException]
        st == MarkerLoop(1, det, img_msg.header.stamp, cfg, st0)
        pubs == <<Publish("aruco_poses",
                          [header |-> header, poses |-> st.pose_array]),
                  Publish("aruco_markers",
                          [header |-> header, poses |-> st.markers_poses,
                           marker_ids |-> st.marker_ids])>>
        ch == CharucoPart(img_msg.header.stamp, cfg, b)
    IN  IF IsNone(det.marker_ids)
        THEN [events |-> <<detect>>, raised |-> NoException]
        ELSE IF st.raised # NoException
        THEN [events |-> st.events, raised |-> st.raised]
        ELSE [events |-> st.events \o pubs \o ch.events,
              raised |-> ch.raised]

\* the fields of self that image_callback reads
Self ==
    [camera_frame |-> camera_frame, aruco_dictionary |-> aruco_dictionary,
     marker_size |-> marker_size, publish_tf |-> publish_tf,
     publish_charuco_pose |-> publish_charuco_pose,
     charuco_square_x |-> charuco_square_x,
     charuco_square_y |-> charuco_square_y,
     charuco_square_length |-> charuco_square_length,
     info_msg |-> info_msg, intrinsic_mat |-> intrinsic_mat,
     distortion |-> distortion]

\* the guard left out
NoCameraInfo_Never(info) == FALSE

\* lines 179-181: the guard on missing camera info
NoCameraInfo(info) == IsNone(info)

image_callback(img_msg, det, b) ==
    /\ prog = "node"
    /\ pc = "spinning"
    /\ nimages < MaxImages
    /\ nimages' = nimages + 1
    /\ op' = "image"
    \* the input of this run: the message, whether camera info was there
    \* when it started, and what the library has to say about the image
    /\ last' = [img_msg |-> img_msg, had_info |-> ~IsNone(info_msg),
                det |-> det, board |-> b]
    /\ IF NoCameraInfo(info_msg)
       THEN /\ events' = <<LogWarn("No camera info has been received!")>>
            /\ raised' = NoException
            /\ pc' = pc
       ELSE LET r == ProcessImage(img_msg, det, b, Self)
            IN  /\ events' = r.events
                /\ raised' = r.raised
                \* an exception leaves rclpy.spin and ends main()
                /\ pc' = IF r.raised # NoException THEN "crashed" ELSE pc
    /\ UNCHANGED <<prog, params, args, nodeConfig, info_sub, calibration,
                   ninfo>>

----------------------------------------------------------------------------
\* aruco_generate_custom_dictionary.main

GenArgs ==
    {[script |-> "gen", size |-> 200, num |-> n, bits |-> b, seed |-> r] :
        n \in 1..MaxNum, b \in CustomBits, r \in CustomSeeds}

ImWrite(path, ok) == [op |-> "imwrite", path |-> path, ok |-> ok]

\* line 33: the dictionary the markers are drawn from
GenDictionary(a) == Dictionary_create(a.num, a.bits, a.seed)

\* lines 34-37: one marker image; the result of cv2.imwrite is dropped
GenMarker(a, i, ok) ==
    <<Call("drawMarker", <<GenDictionary(a), i, a.size>>),
      ImWrite(<<"marker_", i>>, ok)>>

RECURSIVE GenLoop(_, _, _)
GenLoop(a, i, written) ==
    IF i >= a.num
    THEN <<>>
    ELSE GenMarker(a, i, written[i]) \o GenLoop(a, i + 1, written)

\* written[i]: what cv2.imwrite returns for marker i
gen_main(written) ==
    /\ prog = "gen"
    /\ pc = "start"
    /\ events' = <<Call("Dictionary_create",
                        <<args.num, args.bits, args.seed>>)>>
                 \o GenLoop(args, 0, written)
    /\ raised' = NoException
    /\ pc' = "done"
    /\ op' = args.script
    /\ UNCHANGED <<prog, params, args, nodeConfig, info_sub, calibration,
                   ninfo, nimages, last>>

----------------------------------------------------------------------------
\* charuco_generate_board.main

OutSizes == {None, PyInt(0), PyInt(640)}

BoardArgs ==
    {[script |-> "board", square_x |-> sx, square_y |-> sy,
      square_length |-> 100, marker_length |-> 80,
      path |-> "./checkerboard.tiff", out_x |-> ox, out_y |-> oy,
      dictionary |-> "DICT_5X5_250"] :
        sx \in SquaresX, sy \in SquaresY,
        ox \in OutSizes, oy \in OutSizes}

\* lines 52-53: args.out_x or 300 * args.square_x
OutSize(out, squares) == IF Truthy(out) THEN out.value ELSE 300 * squares

\* lines 71-77: the write and the report on the console
BoardWrite(path, written) ==
    <<ImWrite(path, written),
      IF ~written
      THEN ConsolePrint("Failed to write checkerboard")
      ELSE ConsolePrint("Succesfully wrote checkerboard")>>

board_main(written) ==
    /\ prog = "board"
    /\ pc = "start"
    /\ events' =
         <<Call("Dictionary_get", <<args.dictionary>>),
           Call("CharucoBoard_create",
                <<args.square_x, args.square_y, args.square_length,
                  args.marker_length, Dictionary_get(args.dictionary)>>),
           Call("draw", <<OutSize(args.out_x, args.square_x),
                          OutSize(args.out_y, args.square_y)>>)>>
         \o BoardWrite(args.path, written)
    /\ raised' = NoException
    /\ pc' = "done"
    /\ op' = args.script
    /\ UNCHANGED <<prog, params, args, nodeConfig, info_sub, calibration,
                   ninfo, nimages, last>>

----------------------------------------------------------------------------
\* The system

NoLast == [img_msg |-> ImageMsg(0), had_info |-> FALSE,
           det |-> [marker_ids |-> None, tvecs |-> <<>>, rvecs |-> <<>>],
           board |-> [n_corners |-> 0, success |-> FALSE,
                      tvec |-> <<<<0>>, <<0>>, <<0>>>>, rvec |-> <<0, 0, 0>>]]

InitFields ==
    /\ pc = "start"
    /\ op = "none"
    /\ camera_frame = None
    /\ aruco_dictionary = NoDictionary
    /\ marker_size = 0
    /\ publish_tf = FALSE
    /\ publish_charuco_pose = FALSE
    /\ charuco_square_x = 0
    /\ charuco_square_y = 0
    /\ charuco_square_length = 0
    /\ info_sub = FALSE
    /\ info_msg = None
    /\ intrinsic_mat = None
    /\ distortion = None
    /\ ninfo = 0
    /\ nimages = 0
    /\ last = NoLast
    /\ events = <<>>
    /\ raised = NoException

Init ==
    /\ \/ prog = "node" /\ params \in NodeParams /\ args = [script |-> "node"]
       \/ prog = "gen" /\ params = DefaultParams /\ args \in GenArgs
       \/ prog = "board" /\ params = DefaultParams /\ args \in BoardArgs
    /\ InitFields

Next ==
    \/ ArucoNode_init
    \/ \E msg \in InfoMsgs : info_callback(msg)
    \/ \E det \in Detections, b \in BoardResults :
          image_callback(ImageMsg(nimages + 1), det, b)
    \/ \E written \in [0..(MaxNum - 1) -> BOOLEAN] : gen_main(written)
    \/ \E written \in BOOLEAN : board_main(written)

Spec == Init /\ [][Next]_vars

----------------------------------------------------------------------------
\* Properties

\* C1: an image_callback that runs while no camera info has been received
\* logs the warning and returns: no library call, no publication, no
\* transform, no exception, and info_msg, intrinsic_mat and distortion stay
\* as they were (None).
C1_MissingInfoDropsFrame ==
    (op = "image" /\ ~last.had_info) =>
        /\ events = <<LogWarn("No camera info has been received!")>>
        /\ raised = NoException
        /\ pc = "spinning"
        /\ IsNone(info_msg) /\ IsNone(intrinsic_mat) /\ IsNone(distortion)

\* C1 witness: a frame was dropped for lack of camera info
C1_Witness ==
    /\ op = "image" /\ ~last.had_info
    /\ ~IsNone(last.det.marker_ids)
    /\ nimages = 2

\* C2: once camera info is stored, the subscription is gone, exactly one
\* info_callback has run, the cached matrix and distortion are those of the
\* stored message, and no later step changes any of them.
C2_CalibrationConsumedOnce ==
    [][ /\ ~IsNone(info_msg) =>
             /\ info_msg' = info_msg
             /\ intrinsic_mat' = intrinsic_mat
             /\ distortion' = distortion
             /\ ninfo' = ninfo
        /\ ~IsNone(info_msg') =>
             /\ ~info_sub'
             /\ ninfo' = 1
             /\ intrinsic_mat' = Reshape3x3(info_msg'.k)
             /\ distortion' = NdArray(info_msg'.d) ]_vars

\* C2 witness: two images were processed after the camera info arrived
C2_Witness ==
    /\ op = "image" /\ last.had_info /\ nimages = 2
    /\ ~IsNone(info_msg) /\ ~info_sub
    /\ intrinsic_mat.rows[2][3] = info_msg.k[6]

C3_BadDictionaryOnlyLogged ==
    (op = "init"
     /\ params.aruco_dictionary_id # "CUSTOM"
     /\ (params.aruco_dictionary_id \notin ArucoAttributes
         \/ ArucoAttributeType(params.aruco_dictionary_id) # "int")) =>
        /\ raised = NoException
        /\ pc = "spinning"
        /\ \E i \in DOMAIN events : events[i].op = "log_error"
        /\ \A i \in DOMAIN events :
             ~(events[i].op = "call" /\ events[i].name = "Dictionary_get")

\* C4: in both generator scripts a failed cv2.imwrite is printed to the
\* console and nothing is written after it.
C4_WriteFailureReported ==
    (op \in {"gen", "board"}) =>
        \A i \in DOMAIN events :
            (events[i].op = "imwrite" /\ ~events[i].ok) =>
                /\ \E j \in DOMAIN events : j > i /\ events[j].op = "print"
                /\ \A j \in DOMAIN events : j > i => events[j].op # "imwrite"

\* C6: a node configured with CUSTOM, dictionary_size n, dictionary_bits b
\* and dictionary_seed s holds the dictionary that the generator script
\* creates for --num n --bits b --seed s.
C6_CustomDictionaryAgrees ==
    (op = "init" /\ params.aruco_dictionary_id = "CUSTOM") =>
        aruco_dictionary =
            GenDictionary([num |-> params.dictionary_size,
                           bits |-> params.dictionary_bits,
                           seed |-> params.dictionary_seed])

\* C7: the ChArUco board is created with squaresX = charuco_square_x,
\* squaresY = charuco_square_y, square length = charuco_square_length and
\* marker length = marker_size.
C7_BoardGeometry ==
    (op = "image") =>
        \A i \in DOMAIN events :
            (events[i].op = "call"
             /\ events[i].name = "CharucoBoard_create") =>
                /\ events[i].args[1] = params.charuco_square_x
                /\ events[i].args[2] = params.charuco_square_y
                /\ events[i].args[3] = params.charuco_square_length
                /\ events[i].args[4] = params.marker_size

\* C8: with publish_tf, an image_callback with n >= 1 detections
\* (calibration present) completes without raising and broadcasts exactly n
\* transforms, the k-th one for the k-th marker, with the image's stamp, the
\* marker's translation and quaternion and the parent frame camera_frame or,
\* when that is unset, the frame of the cached camera info, all before the
\* pose array is published; without publish_tf nothing is broadcast.
C8_Transforms ==
    (op = "image" /\ last.had_info /\ ~IsNone(last.det.marker_ids)) =>
        LET n == Len(last.det.marker_ids.data)
            IsT(e) == e.op = "sendTransform"
            ts == SelectSeq(events, IsT)
            parent == IF params.camera_frame.type = "STRING"
                      THEN params.camera_frame.string_value
                      ELSE info_msg.header.frame_id
        IN  IF ~params.publish_tf
            THEN Len(ts) = 0
            ELSE /\ raised = NoException
                 /\ Len(ts) = n
                 /\ \A k \in 1..n :
                      /\ events[2 + k] = ts[k]
                      /\ ts[k].t.child_frame_id =
                            MarkerFrame(last.det.marker_ids.data[k][1])
                      /\ ts[k].t.header.stamp = last.img_msg.header.stamp
                      /\ ts[k].t.header.frame_id = parent
                      /\ ts[k].t.translation =
                            [x |-> last.det.tvecs[k][1][1],
                             y |-> last.det.tvecs[k][1][2],
                             z |-> last.det.tvecs[k][1][3]]
                      /\ ts[k].t.rotation = Quaternion(last.det.rvecs[k][1])
                 /\ Len(events) >= n + 3
                 /\ events[n + 3].op = "publish"
                 /\ events[n + 3].topic = "aruco_poses"

\* C9: the frame_id of every published PoseArray and ArucoMarkers is the
\* camera_frame parameter when it was set and the frame_id of the cached
\* camera info when it was not.
C9_HeaderFrame ==
    (op = "image") =>
        \A i \in DOMAIN events :
            (events[i].op = "publish"
             /\ events[i].topic \in {"aruco_poses", "aruco_markers"}) =>
                events[i].msg.header.frame_id =
                    IF params.camera_frame.type = "STRING"
                    THEN params.camera_frame.string_value
                    ELSE info_msg.header.frame_id

\* C10: nothing is published while no camera info is stored; an
\* image_callback without detections publishes nothing and does not call
\* the pose estimator; one with detections publishes exactly one PoseArray
\* and then exactly one ArucoMarkers; a board pose is published at most once,
\* only with publish_charuco_pose, detections, interpolated corners and a
\* successful estimate, and after the two marker messages.
C10_PublicationsGated ==
    LET Pubs(topic) == {i \in DOMAIN events :
                          events[i].op = "publish" /\ events[i].topic = topic}
        AllPubs == {i \in DOMAIN events : events[i].op = "publish"}
        Estimates == {i \in DOMAIN events :
                        events[i].op = "call"
                        /\ events[i].name = "estimatePoseSingleMarkers"}
    IN  /\ (op \in {"init", "info"} \/ (op = "image" /\ ~last.had_info)) =>
               AllPubs = {}
        /\ (op = "image" /\ last.had_info /\ IsNone(last.det.marker_ids)) =>
               AllPubs = {} /\ Estimates = {}
        /\ (op = "image" /\ last.had_info /\ ~IsNone(last.det.marker_ids)) =>
               /\ Cardinality(Pubs("aruco_poses")) = 1
               /\ Cardinality(Pubs("aruco_markers")) = 1
               /\ \A i \in Pubs("aruco_poses"), j \in Pubs("aruco_markers") :
                    i < j
        /\ (op = "image") =>
               /\ Cardinality(Pubs("charuco_pose")) <= 1
               /\ Pubs("charuco_pose") # {} =>
                    /\ params.publish_charuco_pose
                    /\ last.had_info
                    /\ ~IsNone(last.det.marker_ids)
                    /\ last.board.n_corners > 0
                    /\ last.board.success
                    /\ \A c \in Pubs("charuco_pose") :
                         \A i \in Pubs("aruco_poses") \cup Pubs("aruco_markers") :
                            i < c

====
